---- MODULE Spec2Model ----
(***************************************************************************)
(* Model of the blogging API of src/app/main.py: the user and post tables, *)
(* the bearer tokens handed out by signin, the wall clock, and one action  *)
(* per request handler.  The tables' constraints (models.py) and the token *)
(* functions (auth.py) follow the design document: a unique username, ids  *)
(* from a sequence, created_at set once from the clock, a foreign key from *)
(* posts to users, and signed tokens that expire.                          *)
(***************************************************************************)
EXTENDS Integers, Sequences, FiniteSets, TLC

VARIABLES
    users,      \* rows of the users table: [id, username, hashed_password]
    posts,      \* rows of the posts table: [id, title, content, created_at, author_id]
    now,        \* the wall clock
    issued,     \* the tokens signin has handed out and clients hold: a client
                \* keeps the last token it was given
    seq,        \* the last id handed out by each table's id sequence
    resp,       \* the last request together with its response
    workers     \* concurrent signup requests: each worker's position and locals

vars == <<users, posts, now, issued, seq, resp, workers>>

----------------------------------------------------------------------------
(* Bounds of the model *)

MaxTime == 2         \* the clock runs from 0 to MaxTime
MaxUsers == 2        \* accounts ever created
MaxOwnPosts == 1     \* posts ever created where two accounts contend for them
MaxPosts == 2        \* posts ever created where one account edits them
MaxListPosts == 3    \* posts ever created where they are listed
MaxLimit == 2        \* limit is drawn from 0..MaxLimit and the default
MaxOffset == 2       \* offset is drawn from 0..MaxOffset

(* Program constants *)

DefaultLimit == 10
DefaultOffset == 0
ACCESS_TOKEN_EXPIRE == 1    \* the lifetime of a token, in ticks of the clock

(* Input domains *)

Usernames == {"alice", "bob"}
Passwords == {"pw1", "pw2"}
Salts == {"s1", "s2"}
PostData == {[title |-> "t1", content |-> "c1"], [title |-> "t2", content |-> "c2"]}
WorkerIds == {"w1", "w2"}
SECRET_KEY == "server-key"
AttackerKey == "attacker-key"

NoData == [title |-> "", content |-> ""]
NoPost == [id |-> 0, title |-> "", content |-> "", created_at |-> 0, author_id |-> 0]
NoUser == [id |-> 0, username |-> "", hashed_password |-> [scheme |-> "", salt |-> "", digest |-> <<"", "">>]]
NoCred == [sub |-> "", exp |-> 0, sig |-> <<"", "", 0>>]

Min2(a, b) == IF a <= b THEN a ELSE b

----------------------------------------------------------------------------
(* Credential hasher: passlib's CryptContext(schemes=["argon2"]) *)

Argon2(password, salt) == <<password, salt>>

pwd_hash(password, salt) ==
    [scheme |-> "argon2", salt |-> salt, digest |-> Argon2(password, salt)]

pwd_verify(password, hashed) ==
    /\ hashed.scheme = "argon2"
    /\ Argon2(password, hashed.salt) = hashed.digest

----------------------------------------------------------------------------
(* Token service *)

Sign(key, sub, exp) == <<key, sub, exp>>

create_access_token(sub) ==
    LET exp == now + ACCESS_TOKEN_EXPIRE
    IN  [sub |-> sub, exp |-> exp, sig |-> Sign(SECRET_KEY, sub, exp)]

\* the payload of a token whose signature matches and that has not expired,
\* NoCred (None) otherwise
verify_token(token) ==
    IF token.sig # Sign(SECRET_KEY, token.sub, token.exp) THEN NoCred
    ELSE IF now >= token.exp THEN NoCred
    ELSE token

\* what a client without the signing key can present besides the tokens it
\* was given: an issued token with its subject or expiry rewritten and the
\* old signature kept, and a token signed with another key
Tampered ==
    UNION {{[t EXCEPT !.sub = u] : u \in Usernames \ {t.sub}} : t \in issued}
        \cup {[t EXCEPT !.exp = t.exp + ACCESS_TOKEN_EXPIRE] : t \in issued}
Forged ==
    {[sub |-> u, exp |-> MaxTime + ACCESS_TOKEN_EXPIRE,
      sig |-> Sign(AttackerKey, u, MaxTime + ACCESS_TOKEN_EXPIRE)] : u \in Usernames}
Presentable == issued \cup Tampered \cup Forged \cup {NoCred}

----------------------------------------------------------------------------
(* Authorization guard *)

\* HTTPBearer: a request without the Authorization header is refused before
\* the dependency body runs; notAuth is the status the framework answers with
security(credentials, notAuth) ==
    IF credentials = NoCred
    THEN [ok |-> FALSE, status |-> notAuth, detail |-> "Not authenticated"]
    ELSE [ok |-> TRUE, status |-> 200, detail |-> ""]

get_current_user_unverified(credentials, notAuth) ==
    LET sec == security(credentials, notAuth)
    IN  IF ~sec.ok THEN [ok |-> FALSE, status |-> sec.status, detail |-> sec.detail, sub |-> ""]
        ELSE [ok |-> TRUE, status |-> 200, detail |-> "", sub |-> credentials.sub]

get_current_user(credentials, notAuth) ==
    LET sec == security(credentials, notAuth)
        payload == verify_token(credentials)
    IN  IF ~sec.ok THEN [ok |-> FALSE, status |-> sec.status, detail |-> sec.detail, sub |-> ""]
        ELSE IF payload = NoCred
        THEN [ok |-> FALSE, status |-> 401, detail |-> "Invalid or expired token", sub |-> ""]
        ELSE [ok |-> TRUE, status |-> 200, detail |-> "", sub |-> payload.sub]

NotAuthStatus == {401, 403}

----------------------------------------------------------------------------
(* Tables *)

\* db.query(User).filter(User.username == name).first(): the row, or NoUser
UserByName(name) ==
    IF \E u \in users : u.username = name
    THEN CHOOSE u \in users : u.username = name
    ELSE NoUser

\* db.query(Post).filter(Post.id == post_id).first(): the row, or NoPost
PostById(post_id) ==
    IF \E p \in posts : p.id = post_id
    THEN CHOOSE p \in posts : p.id = post_id
    ELSE NoPost

\* INSERT INTO users: the unique constraint on username refuses a duplicate
db_add_user(username, hashed) ==
    IF \E u \in users : u.username = username
    THEN [error |-> TRUE, users |-> users]
    ELSE [error |-> FALSE,
          users |-> users \cup {[id |-> seq.users + 1,
                                 username |-> username,
                                 hashed_password |-> hashed]}]

\* INSERT INTO posts: the id is generated, created_at defaults to the clock
db_add_post(title, content, author_id) ==
    [id |-> seq.posts + 1, title |-> title, content |-> content,
     created_at |-> now, author_id |-> author_id]

----------------------------------------------------------------------------
(* Requests and responses *)

Request(op) ==
    [op |-> op, status |-> 0, detail |-> "", creds |-> NoCred, username |-> "",
     password |-> "", post_id |-> 0, data |-> NoData, limit |-> 0, offset |-> 0,
     token |-> NoCred, token_type |-> "", post |-> NoPost, list |-> <<>>, user |-> ""]

IdleWorker == [pc |-> "idle", username |-> "", password |-> "", status |-> 0]

Init ==
    /\ users = {}
    /\ posts = {}
    /\ now = 0
    /\ issued = {}
    /\ seq = [users |-> 0, posts |-> 0]
    /\ resp = Request("none")
    /\ workers = [w \in WorkerIds |-> IdleWorker]

----------------------------------------------------------------------------------------------------------------------------------------
(* Request handlers: the response and the tables after the request *)

\* signup up to its existence query
signup_query(user) == UserByName(user.username)

\* signup from hashing the password to the commit; the insert the unique
\* constraint refuses raises IntegrityError, which nothing catches
signup_commit(user, salt) ==
    LET hashed_password == pwd_hash(user.password, salt)
        ins == db_add_user(user.username, hashed_password)
    IN  IF ins.error
        THEN [status |-> 500, detail |-> "Internal Server Error", users |-> users]
        ELSE [status |-> 200, detail |-> "User created successfully", users |-> ins.users]

\* signup replacing the password of an account that exists
signup_upsert(user, salt) ==
    LET existing_user == signup_query(user)
    IN  IF existing_user # NoUser
        THEN [status |-> 200, detail |-> "User created successfully",
              users |-> (users \ {existing_user}) \cup
                  {[existing_user EXCEPT !.hashed_password = pwd_hash(user.password, salt)]}]
        ELSE signup_commit(user, salt)

signup(user, salt) ==
    LET existing_user == signup_query(user)
    IN  IF existing_user # NoUser
        THEN [status |-> 400, detail |-> "Username already exists", users |-> users]
        ELSE signup_commit(user, salt)

\* signin that does not check the password
signin_no_password_check(user) ==
    LET db_user == UserByName(user.username)
    IN  IF db_user = NoUser
        THEN [status |-> 401, detail |-> "Invalid credentials",
              token |-> NoCred, token_type |-> ""]
        ELSE [status |-> 200, detail |-> "",
              token |-> create_access_token(db_user.username), token_type |-> "bearer"]

\* signin telling an unknown user from a wrong password
signin_enumerating(user) ==
    LET db_user == UserByName(user.username)
    IN  IF db_user = NoUser
        THEN [status |-> 401, detail |-> "User not found",
              token |-> NoCred, token_type |-> ""]
        ELSE IF ~pwd_verify(user.password, db_user.hashed_password)
        THEN [status |-> 401, detail |-> "Incorrect password",
              token |-> NoCred, token_type |-> ""]
        ELSE [status |-> 200, detail |-> "",
              token |-> create_access_token(db_user.username), token_type |-> "bearer"]

signin(user) ==
    LET db_user == UserByName(user.username)
    IN  IF db_user = NoUser
        THEN [status |-> 401, detail |-> "Invalid credentials",
              token |-> NoCred, token_type |-> ""]
        ELSE IF ~pwd_verify(user.password, db_user.hashed_password)
        THEN [status |-> 401, detail |-> "Invalid credentials",
              token |-> NoCred, token_type |-> ""]
        ELSE [status |-> 200, detail |-> "",
              token |-> create_access_token(db_user.username), token_type |-> "bearer"]

read_current_user(credentials, notAuth) ==
    LET current_user == get_current_user(credentials, notAuth)
    IN  IF ~current_user.ok
        THEN [status |-> current_user.status, detail |-> current_user.detail, user |-> ""]
        ELSE [status |-> 200, detail |-> "", user |-> current_user.sub]

\* create_post without the check that the actor's row exists
create_post_no_user_check(post, credentials, notAuth) ==
    LET current_user == get_current_user(credentials, notAuth)
        db_user == UserByName(current_user.sub)
        new_post == db_add_post(post.title, post.content, db_user.id)
    IN  IF ~current_user.ok
        THEN [status |-> current_user.status, detail |-> current_user.detail,
              post |-> NoPost, posts |-> posts]
        ELSE [status |-> 200, detail |-> "", post |-> new_post,
              posts |-> posts \cup {new_post}]

create_post(post, credentials, notAuth) ==
    LET current_user == get_current_user(credentials, notAuth)
        db_user == UserByName(current_user.sub)
        new_post == db_add_post(post.title, post.content, db_user.id)
    IN  IF ~current_user.ok
        THEN [status |-> current_user.status, detail |-> current_user.detail,
              post |-> NoPost, posts |-> posts]
        ELSE IF db_user = NoUser
        THEN [status |-> 404, detail |-> "User not found", post |-> NoPost, posts |-> posts]
        ELSE [status |-> 200, detail |-> "", post |-> new_post,
              posts |-> posts \cup {new_post}]

\* the rows of posts in an order the database may return them in for
\* ORDER BY created_at DESC: rows of equal created_at in either order
IsPermutation(rows, S) ==
    /\ Len(rows) = Cardinality(S)
    /\ \A x \in S : \E i \in 1..Len(rows) : rows[i] = x

OrderByCreatedAtDesc ==
    {rows \in [1..Cardinality(posts) -> posts] :
        /\ IsPermutation(rows, posts)
        /\ \A i, j \in 1..Len(rows) : i < j => rows[i].created_at >= rows[j].created_at}

\* limit and offset taken for one another
LimitOffset_swapped(rows, limit, offset) ==
    SubSeq(rows, limit + 1, Min2(Len(rows), limit + offset))

LimitOffset(rows, limit, offset) ==
    SubSeq(rows, offset + 1, Min2(Len(rows), offset + limit))

get_posts(limit, offset, ordered) ==
    [status |-> 200, detail |-> "", list |-> LimitOffset(ordered, limit, offset)]

get_post(post_id) ==
    LET post == PostById(post_id)
    IN  IF post = NoPost
        THEN [status |-> 404, detail |-> "Post not found", post |-> NoPost]
        ELSE [status |-> 200, detail |-> "", post |-> post]

\* update_post without its ownership check
update_post_no_owner_check(post_id, post_data, credentials, notAuth) ==
    LET current_user == get_current_user(credentials, notAuth)
        post == PostById(post_id)
        updated == [post EXCEPT !.title = post_data.title, !.content = post_data.content]
    IN  IF ~current_user.ok
        THEN [status |-> current_user.status, detail |-> current_user.detail,
              post |-> NoPost, posts |-> posts]
        ELSE IF post = NoPost
        THEN [status |-> 404, detail |-> "Post not found", post |-> NoPost, posts |-> posts]
        ELSE [status |-> 200, detail |-> "", post |-> updated,
              posts |-> (posts \ {post}) \cup {updated}]

\* update_post stamping the row with the time of the update
update_post_restamp(post_id, post_data, credentials, notAuth) ==
    LET current_user == get_current_user(credentials, notAuth)
        post == PostById(post_id)
        db_user == UserByName(current_user.sub)
        updated == [post EXCEPT !.title = post_data.title, !.content = post_data.content,
                                !.created_at = now]
    IN  IF ~current_user.ok
        THEN [status |-> current_user.status, detail |-> current_user.detail,
              post |-> NoPost, posts |-> posts]
        ELSE IF post = NoPost
        THEN [status |-> 404, detail |-> "Post not found", post |-> NoPost, posts |-> posts]
        ELSE IF db_user = NoUser
        THEN [status |-> 500, detail |-> "Internal Server Error",
              post |-> NoPost, posts |-> posts]
        ELSE IF post.author_id # db_user.id
        THEN [status |-> 403, detail |-> "Not allowed to edit this post",
              post |-> NoPost, posts |-> posts]
        ELSE [status |-> 200, detail |-> "", post |-> updated,
              posts |-> (posts \ {post}) \cup {updated}]

update_post(post_id, post_data, credentials, notAuth) ==
    LET current_user == get_current_user(credentials, notAuth)
        post == PostById(post_id)
        db_user == UserByName(current_user.sub)
        updated == [post EXCEPT !.title = post_data.title, !.content = post_data.content]
    IN  IF ~current_user.ok
        THEN [status |-> current_user.status, detail |-> current_user.detail,
              post |-> NoPost, posts |-> posts]
        ELSE IF post = NoPost
        THEN [status |-> 404, detail |-> "Post not found", post |-> NoPost, posts |-> posts]
        ELSE IF db_user = NoUser   \* db_user is None: db_user.id raises AttributeError
        THEN [status |-> 500, detail |-> "Internal Server Error",
              post |-> NoPost, posts |-> posts]
        ELSE IF post.author_id # db_user.id
        THEN [status |-> 403, detail |-> "Not allowed to edit this post",
              post |-> NoPost, posts |-> posts]
        ELSE [status |-> 200, detail |-> "", post |-> updated,
              posts |-> (posts \ {post}) \cup {updated}]

delete_post(post_id, credentials, notAuth) ==
    LET current_user == get_current_user(credentials, notAuth)
        post == PostById(post_id)
        db_user == UserByName(current_user.sub)
    IN  IF ~current_user.ok
        THEN [status |-> current_user.status, detail |-> current_user.detail, posts |-> posts]
        ELSE IF post = NoPost
        THEN [status |-> 404, detail |-> "Post not found", posts |-> posts]
        ELSE IF db_user = NoUser   \* db_user is None: db_user.id raises AttributeError
        THEN [status |-> 500, detail |-> "Internal Server Error", posts |-> posts]
        ELSE IF post.author_id # db_user.id
        THEN [status |-> 403, detail |-> "Not allowed to delete this post", posts |-> posts]
        ELSE [status |-> 200, detail |-> "Post deleted successfully",
              posts |-> posts \ {post}]

----------------------------------------------------------------------------------------------------------------------------------------------------------------------------------------------------
(* Actions: one request each, handled from start to finish.  The sets the  *)
(* inputs are drawn from are parameters, so that each specification below  *)
(* exercises the handlers over the inputs its properties are about.        *)

PostIds == 1..(seq.posts + 1)

NotAuth(credentials) == IF credentials = NoCred THEN NotAuthStatus ELSE {401}

Signup(names, passwords, salts) ==
    \E username \in names, password \in passwords, salt \in salts :
        LET user == [username |-> username, password |-> password]
            r == signup(user, salt)
        IN  /\ r.status = 200 => seq.users < MaxUsers
            /\ users' = r.users
            /\ seq' = [seq EXCEPT !.users = IF r.status = 200 THEN @ + 1 ELSE @]
            /\ resp' = [Request("signup") EXCEPT !.username = username,
                            !.password = password, !.status = r.status,
                            !.detail = r.detail]
            /\ UNCHANGED <<posts, now, issued, workers>>

Signin(names, passwords) ==
    \E username \in names, password \in passwords :
        LET user == [username |-> username, password |-> password]
            r == signin(user)
        IN  \* the client keeps the token in place of the one it held
            /\ issued' = IF r.status = 200
                         THEN {t \in issued : t.sub # r.token.sub} \cup {r.token}
                         ELSE issued
            /\ resp' = [Request("signin") EXCEPT !.username = username,
                            !.password = password, !.status = r.status,
                            !.detail = r.detail, !.token = r.token,
                            !.token_type = r.token_type]
            /\ UNCHANGED <<users, posts, now, workers, seq>>

ReadCurrentUser(creds) ==
    \E credentials \in creds : \E notAuth \in NotAuth(credentials) :
        LET r == read_current_user(credentials, notAuth)
        IN  /\ resp' = [Request("me") EXCEPT !.creds = credentials,
                            !.status = r.status, !.detail = r.detail, !.user = r.user]
            /\ UNCHANGED <<users, posts, now, issued, workers, seq>>

CreatePost(creds, datas, maxPosts) ==
    \E credentials \in creds, post \in datas : \E notAuth \in NotAuth(credentials) :
        LET r == create_post(post, credentials, notAuth)
        IN  /\ r.status = 200 => seq.posts < maxPosts
            /\ posts' = r.posts
            /\ seq' = [seq EXCEPT !.posts = IF r.status = 200 THEN @ + 1 ELSE @]
            /\ resp' = [Request("create_post") EXCEPT !.creds = credentials,
                            !.data = post, !.status = r.status, !.detail = r.detail,
                            !.post = r.post]
            /\ UNCHANGED <<users, now, issued, workers>>

GetPosts(limits, offsets) ==
    \E limit \in limits, offset \in offsets, ordered \in OrderByCreatedAtDesc :
        LET r == get_posts(limit, offset, ordered)
        IN  /\ resp' = [Request("get_posts") EXCEPT !.limit = limit, !.offset = offset,
                            !.status = r.status, !.detail = r.detail, !.list = r.list]
            /\ UNCHANGED <<users, posts, now, issued, workers, seq>>

GetPost ==
    \E post_id \in PostIds :
        LET r == get_post(post_id)
        IN  /\ resp' = [Request("get_post") EXCEPT !.post_id = post_id,
                            !.status = r.status, !.detail = r.detail, !.post = r.post]
            /\ UNCHANGED <<users, posts, now, issued, workers, seq>>

UpdatePost(creds, datas) ==
    \E credentials \in creds, post_id \in PostIds, post_data \in datas :
      \E notAuth \in NotAuth(credentials) :
        LET r == update_post(post_id, post_data, credentials, notAuth)
        IN  /\ posts' = r.posts
            /\ resp' = [Request("update_post") EXCEPT !.creds = credentials,
                            !.post_id = post_id, !.data = post_data,
                            !.status = r.status, !.detail = r.detail, !.post = r.post]
            /\ UNCHANGED <<users, now, issued, workers, seq>>

DeletePost(creds) ==
    \E credentials \in creds, post_id \in PostIds :
      \E notAuth \in NotAuth(credentials) :
        LET r == delete_post(post_id, credentials, notAuth)
        IN  /\ posts' = r.posts
            /\ resp' = [Request("delete_post") EXCEPT !.creds = credentials,
                            !.post_id = post_id, !.status = r.status, !.detail = r.detail]
            /\ UNCHANGED <<users, now, issued, workers, seq>>

\* the clock advances
Tick ==
    /\ now < MaxTime
    /\ now' = now + 1
    /\ UNCHANGED <<users, posts, issued, resp, workers, seq>>

\* an administrator removes an account; the foreign key of posts.author_id
\* lets the row go only together with the posts that reference it.  Tokens
\* are not revoked.
AdminDeleteUser ==
    \E u \in users :
        /\ users' = users \ {u}
        /\ posts' = {p \in posts : p.author_id # u.id}
        /\ resp' = [Request("admin_delete_user") EXCEPT !.username = u.username,
                        !.status = 200]
        /\ UNCHANGED <<now, issued, workers, seq>>

(* signup as concurrent requests run it: the existence query and the       *)
(* insert are separate statements, and other requests run between them     *)

SignupQuery(w, names, passwords) ==
    \E username \in names, password \in passwords :
        LET user == [username |-> username, password |-> password]
            existing_user == signup_query(user)
        IN  /\ workers[w].pc = "idle"
            /\ workers' = [workers EXCEPT ![w] =
                   IF existing_user # NoUser
                   THEN [pc |-> "done", username |-> username,
                         password |-> password, status |-> 400]
                   ELSE [pc |-> "insert", username |-> username,
                         password |-> password, status |-> 0]]
            /\ UNCHANGED <<users, posts, now, issued, resp, seq>>

SignupCommit(w, salts) ==
    \E salt \in salts :
        LET user == [username |-> workers[w].username, password |-> workers[w].password]
            r == signup_commit(user, salt)
        IN  /\ workers[w].pc = "insert"
            /\ users' = r.users
            /\ seq' = [seq EXCEPT !.users = IF r.status = 200 THEN @ + 1 ELSE @]
            /\ workers' = [workers EXCEPT ![w].pc = "done", ![w].status = r.status]
            /\ UNCHANGED <<posts, now, issued, resp>>

\* the response is sent and the worker takes the next request
SignupReturn(w) ==
    /\ workers[w].pc = "done"
    /\ workers' = [workers EXCEPT ![w] = IdleWorker]
    /\ UNCHANGED <<users, posts, now, issued, resp, seq>>

----------------------------------------------------------------------------
(* Spec: accounts and tokens -- signup, signin and GET /me under every     *)
(* credential a client can present, and the clock                          *)

Next ==
    \/ Signup(Usernames, Passwords, Salts)
    \/ Signin(Usernames, Passwords)
    \/ ReadCurrentUser(Presentable)
    \/ Tick

Spec == Init /\ [][Next]_vars

OnePassword == {"pw1"}
OneSalt == {"s1"}
Alice == {"alice"}
OneData == {[title |-> "t1", content |-> "c1"]}

(* SpecGuard: the protected post handlers under every credential a client  *)
(* can present                                                             *)

NextGuard ==
    \/ Signup(Alice, OnePassword, OneSalt)
    \/ Signin(Alice, OnePassword)
    \/ ReadCurrentUser(Presentable)
    \/ CreatePost(Presentable, OneData, MaxOwnPosts)
    \/ UpdatePost(Presentable, PostData)
    \/ DeletePost(Presentable)
    \/ Tick

SpecGuard == Init /\ [][NextGuard]_vars

(* SpecOwn: two accounts contending for posts *)

NextOwn ==
    \/ Signup(Usernames, OnePassword, OneSalt)
    \/ Signin(Usernames, OnePassword)
    \/ CreatePost(issued, PostData, MaxOwnPosts)
    \/ GetPost
    \/ UpdatePost(issued, PostData)
    \/ DeletePost(issued)
    \/ Tick

SpecOwn == Init /\ [][NextOwn]_vars

(* SpecFrame: one account editing several posts *)

NextFrame ==
    \/ Signup(Alice, OnePassword, OneSalt)
    \/ Signin(Alice, OnePassword)
    \/ CreatePost(issued, PostData, MaxPosts)
    \/ UpdatePost(issued, PostData)
    \/ DeletePost(issued)
    \/ Tick

SpecFrame == Init /\ [][NextFrame]_vars

(* SpecList: one account posting, and the public listing *)

NextList ==
    \/ Signup(Alice, OnePassword, OneSalt)
    \/ Signin(Alice, OnePassword)
    \/ CreatePost(issued, OneData, MaxListPosts)
    \/ GetPosts((0..MaxLimit) \cup {DefaultLimit}, (0..MaxOffset) \cup {DefaultOffset})
    \/ Tick

SpecList == Init /\ [][NextList]_vars

(* SpecAdmin: accounts removed by an administrator while their tokens live *)

NextAdmin ==
    \/ Signup(Usernames, OnePassword, OneSalt)
    \/ Signin(Usernames, OnePassword)
    \/ CreatePost(issued, OneData, MaxOwnPosts)
    \/ UpdatePost(issued, PostData)
    \/ DeletePost(issued)
    \/ AdminDeleteUser

SpecAdmin == Init /\ [][NextAdmin]_vars

(* SpecConc: signup requests running concurrently *)

NextConc ==
    \E w \in WorkerIds :
        \/ SignupQuery(w, Usernames, Passwords)
        \/ SignupCommit(w, OneSalt)
        \/ SignupReturn(w)

SpecConc == Init /\ [][NextConc]_vars

----------------------------------------------------------------------------
(* Properties *)

Protected == {"me", "create_post", "update_post", "delete_post"}

\* the guard lets the credential through
Accepted(credentials) == get_current_user(credentials, 401).ok

\* the users row of the credential's subject, NoUser when there is none
Actor(credentials) == UserByName(get_current_user(credentials, 401).sub)

\* the step is a request: every handler leaves a response that differs from
\* the one before it, unless it repeats a request that changes nothing
IsRequest == resp' # resp

\* what C1 asks of one step
C1_Step ==
    /\ \A p \in posts : p \notin posts' =>
          /\ resp'.op \in {"update_post", "delete_post"}
          /\ resp'.status = 200
          /\ resp'.post_id = p.id
          /\ Accepted(resp'.creds)
          /\ Actor(resp'.creds).id = p.author_id
    /\ ( /\ IsRequest
         /\ resp'.op \in {"update_post", "delete_post"}
         /\ Accepted(resp'.creds)
         /\ PostById(resp'.post_id) # NoPost ) =>
          LET p == PostById(resp'.post_id)
          IN  IF Actor(resp'.creds).id # p.author_id
              THEN /\ resp'.status = 403
                   /\ posts' = posts
              ELSE /\ resp'.status = 200
                   /\ resp'.op = "delete_post" => \A q \in posts' : q.id # p.id
                   /\ resp'.op = "update_post" =>
                          \E q \in posts' : /\ q.id = p.id
                                            /\ q.title = resp'.data.title
                                            /\ q.content = resp'.data.content

\* C1: a post is changed or removed only by an update_post / delete_post
\* request that succeeds and whose authenticated actor's User.id is the
\* post's author_id; with a valid token of another user the request is
\* answered 403 and leaves the posts as they were, with the author's valid
\* token it succeeds.
C1_OwnerOnly == [][C1_Step]_vars

\* C1's case: the valid token of a user who is not the author was presented
\* for an existing post and the request was answered 403
C1_Witness ==
    /\ resp.op \in {"update_post", "delete_post"}
    /\ resp.status = 403
    /\ PostById(resp.post_id) # NoPost
    /\ Actor(resp.creds) # NoUser
    /\ Actor(resp.creds).id # PostById(resp.post_id).author_id

\* what C10 asks of one step
C10_Step ==
    /\ \A p \in posts, q \in posts' :
          p.id = q.id => q.created_at = p.created_at /\ q.author_id = p.author_id
    /\ (IsRequest /\ resp'.op = "update_post" /\ resp'.status = 200) =>
          /\ users' = users
          /\ \A p \in posts : p.id # resp'.post_id => p \in posts'
          /\ \A q \in posts' : q.id # resp'.post_id => q \in posts
          /\ Cardinality(posts') = Cardinality(posts)
          /\ \E p \in posts, q \in posts' :
                /\ p.id = resp'.post_id
                /\ q = [p EXCEPT !.title = resp'.data.title,
                                 !.content = resp'.data.content]
                /\ resp'.post = q
    /\ (IsRequest /\ resp'.op = "delete_post" /\ resp'.status = 200) =>
          /\ users' = users
          /\ \E p \in posts : p.id = resp'.post_id /\ posts' = posts \ {p}

\* C10: a post keeps its created_at and author_id for as long as it exists;
\* a successful update_post changes the title and content of the addressed
\* post and nothing else, a successful delete_post removes the addressed
\* post and nothing else; neither changes a user.
C10_Frame == [][C10_Step]_vars

\* C10's case: a post was updated after the clock moved on from its
\* creation, while another post exists
C10_Witness ==
    /\ resp.op = "update_post"
    /\ resp.status = 200
    /\ Cardinality(posts) >= 2
    /\ PostById(resp.post_id).created_at < now
    /\ PostById(resp.post_id).title = resp.data.title

\* what C2 asks of signup in one state, over every input
C2_Inv ==
    \A u \in users, password \in Passwords, salt \in Salts :
        LET r == signup([username |-> u.username, password |-> password], salt)
        IN  /\ r.status = 400
            /\ r.detail = "Username already exists"
            /\ r.users = users

\* what C2 asks of one step
C2_Step ==
    (IsRequest /\ resp'.op = "signup" /\ UserByName(resp'.username) # NoUser) =>
        /\ resp'.status = 400
        /\ resp'.detail = "Username already exists"
        /\ users' = users

\* C2: signup for a username the users table already holds is answered 400
\* "Username already exists" whatever the password, and leaves the users
\* table as it was: no row added, the stored hash not replaced.
C2_Conflict == []C2_Inv /\ [][C2_Step]_vars

\* C2's case: a signup for an existing username with a password other than
\* the stored one was answered 400
C2_Witness ==
    /\ resp.op = "signup"
    /\ resp.status = 400
    /\ UserByName(resp.username) # NoUser
    /\ ~pwd_verify(resp.password, UserByName(resp.username).hashed_password)

\* what C3 asks of signin and GET /me in one state, over every input
C3_Inv ==
    /\ \A u \in users, password \in Passwords :
          LET r == signin([username |-> u.username, password |-> password])
          IN  IF pwd_verify(password, u.hashed_password)
              THEN /\ r.status = 200
                   /\ r.token_type = "bearer"
                   /\ r.token.sub = u.username
                   /\ read_current_user(r.token, 401) =
                          [status |-> 200, detail |-> "", user |-> u.username]
              ELSE /\ r.status = 401
                   /\ r.token = NoCred
    /\ \A u \in users : \E password \in Passwords :
          /\ pwd_verify(password, u.hashed_password)
          /\ \A other \in Passwords \ {password} : ~pwd_verify(other, u.hashed_password)
    /\ \A t \in issued : now < t.exp =>
          read_current_user(t, 401) = [status |-> 200, detail |-> "", user |-> t.sub]
    /\ (resp.op = "signin" /\ resp.status = 200) =>
          /\ resp.token.sub = resp.username
          /\ resp.token_type = "bearer"
          /\ resp.token \in issued
    /\ (resp.op = "me" /\ resp.status = 200) => resp.user = resp.creds.sub

\* what C3 asks of one step
C3_Step ==
    /\ users \subseteq users'
    /\ (IsRequest /\ resp'.op = "signup" /\ resp'.status = 200) =>
          \E u \in users' :
              /\ u.username = resp'.username
              /\ pwd_verify(resp'.password, u.hashed_password)
    /\ (IsRequest /\ resp'.op = "signin") =>
          (resp'.status = 200 <=>
              \E u \in users : /\ u.username = resp'.username
                               /\ pwd_verify(resp'.password, u.hashed_password))

\* C3: after a successful signup(username, password) the users table holds
\* a row for username whose hash the password verifies, and rows are never
\* changed or removed; for every row, signin with the password the hash
\* verifies succeeds with a bearer token whose subject is the username and
\* which GET /me resolves to that username, and signin with any other
\* password is answered 401; every token held resolves to its subject
\* before its expiry.
C3_SignupSigninMe == []C3_Inv /\ [][C3_Step]_vars

\* C3's case: GET /me with a token obtained by signin after signup answered
\* with the username
C3_Witness ==
    /\ resp.op = "me"
    /\ resp.status = 200
    /\ resp.creds \in issued
    /\ resp.user = "alice"
    /\ \E u \in users : u.username = "alice"

\* what C4 asks of signin in one state, over every pair of inputs
C4_Inv ==
    \A u1, u2 \in Usernames, p1, p2 \in Passwords :
        ( /\ UserByName(u1) = NoUser
          /\ UserByName(u2) # NoUser
          /\ ~pwd_verify(p2, UserByName(u2).hashed_password) ) =>
            /\ signin([username |-> u1, password |-> p1])
                   = signin([username |-> u2, password |-> p2])
            /\ signin([username |-> u1, password |-> p1]).status = 401
            /\ signin([username |-> u1, password |-> p1]).detail = "Invalid credentials"
            /\ signin([username |-> u1, password |-> p1]).token = NoCred

\* what C4 asks of one step
C4_Step ==
    (IsRequest /\ resp'.op = "signin" /\ resp'.status # 200) =>
        /\ resp'.status = 401
        /\ resp'.detail = "Invalid credentials"
        /\ resp'.token = NoCred
        /\ resp'.token_type = ""
        /\ UNCHANGED <<users, posts, issued, seq>>

\* C4: signin for a username the users table does not hold and signin for a
\* username it holds with a password that does not verify are answered with
\* the same response, 401 "Invalid credentials" and no token; neither
\* changes a table or the tokens held.
C4_AntiEnumeration == []C4_Inv /\ [][C4_Step]_vars

\* C4's case: a wrong password for an existing username was answered 401
\* while another username is unknown
C4_Witness ==
    /\ resp.op = "signin"
    /\ resp.status = 401
    /\ UserByName(resp.username) # NoUser
    /\ \E n \in Usernames : UserByName(n) = NoUser

\* a credential the guard has to refuse: none at all, one that signin did
\* not hand out, or one past its expiry
Refusable(credentials) ==
    ~(credentials \in issued /\ now <= credentials.exp)

\* what C7 asks of the guard and the protected handlers in one state
C7_Inv ==
    /\ \A t \in issued :
          /\ now < t.exp => Accepted(t)
          /\ now > t.exp => get_current_user(t, 401) =
                 [ok |-> FALSE, status |-> 401,
                  detail |-> "Invalid or expired token", sub |-> ""]
    /\ \A c \in Presentable \ issued : ~Accepted(c)
    /\ \A c \in Presentable : \A notAuth \in NotAuth(c) : Refusable(c) =>
          /\ read_current_user(c, notAuth).status = notAuth
          /\ read_current_user(c, notAuth).user = ""
          /\ \A d \in PostData :
                /\ create_post(d, c, notAuth).status = notAuth
                /\ create_post(d, c, notAuth).posts = posts
          /\ \A id \in PostIds, d \in PostData :
                /\ update_post(id, d, c, notAuth).status = notAuth
                /\ update_post(id, d, c, notAuth).posts = posts
          /\ \A id \in PostIds :
                /\ delete_post(id, c, notAuth).status = notAuth
                /\ delete_post(id, c, notAuth).posts = posts

\* what C7 asks of one step
C7_Step ==
    /\ \A c \in Presentable : ~Accepted(c) => ~Accepted(c)'
    /\ (IsRequest /\ resp'.op \in Protected /\ Refusable(resp'.creds)) =>
          /\ resp'.status \in NotAuth(resp'.creds)
          /\ resp'.user = ""
          /\ resp'.post = NoPost
          /\ UNCHANGED <<users, posts, issued, seq>>
    /\ (IsRequest /\ resp'.op \in Protected /\ resp'.status \notin {401, 403}) =>
          /\ resp'.creds \in issued
          /\ now < resp'.creds.exp
    /\ posts' # posts =>
          /\ resp'.op \in Protected
          /\ resp'.creds \in issued
          /\ now < resp'.creds.exp

\* C7: the guard accepts a token signin handed out at every instant before
\* its expiry and refuses it with 401 at every instant after; a credential
\* the guard refuses is refused for good; a credential signin did not hand
\* out (a rewritten subject or expiry, a foreign signature, none at all) is
\* never accepted; and a protected handler given a refusable credential
\* answers 401 (401 or 403, as the framework has it, when the request
\* carries no credential) and changes no table.
C7_TokenLifetime == []C7_Inv /\ [][C7_Step]_vars

\* C7's case: the author of an existing post presented the token signin gave
\* them after it expired, and delete_post answered 401
C7_Witness ==
    /\ resp.op = "delete_post"
    /\ resp.status = 401
    /\ resp.creds \in issued
    /\ now > resp.creds.exp
    /\ PostById(resp.post_id) # NoPost
    /\ PostById(resp.post_id).author_id = UserByName(resp.creds.sub).id

\* how many posts are newer than t, and how many are as new or newer
Newer(t) == Cardinality({p \in posts : p.created_at > t})
NotOlder(t) == Cardinality({p \in posts : p.created_at >= t})

\* a listing is the page [offset, offset + limit) of the posts in descending
\* order of creation time: it has the page's length, holds posts of the
\* table without repetition, and its i-th row stands at place offset + i of
\* the order (fewer than offset + i posts are newer, at least offset + i
\* are as new or newer)
IsPage(list, limit, offset) ==
    /\ Len(list) = Min2(limit, IF Cardinality(posts) > offset
                               THEN Cardinality(posts) - offset ELSE 0)
    /\ \A i \in 1..Len(list) :
          /\ list[i] \in posts
          /\ Newer(list[i].created_at) < offset + i
          /\ NotOlder(list[i].created_at) >= offset + i
    /\ \A i, j \in 1..Len(list) : i # j => list[i] # list[j]

\* C8 as stated: the listing is the page of the posts sorted by creation
\* time descending and is strictly ordered by creation time.
C8_StrictlyDescending ==
    resp.op = "get_posts" =>
        /\ resp.status = 200
        /\ IsPage(resp.list, resp.limit, resp.offset)
        /\ \A i, j \in 1..Len(resp.list) :
              i < j => resp.list[i].created_at > resp.list[j].created_at

\* C8, amended: get_posts needs no token and answers 200 with the page
\* [offset, offset + limit) of all posts in descending order of creation
\* time, posts of equal creation time in either order: the listing never
\* ascends, and it descends strictly between posts of different creation
\* times; without parameters the limit is 10 and the offset 0.
C8_Page ==
    resp.op = "get_posts" =>
        /\ resp.status = 200
        /\ resp.creds = NoCred
        /\ IsPage(resp.list, resp.limit, resp.offset)
        /\ \A i, j \in 1..Len(resp.list) :
              i < j => resp.list[i].created_at >= resp.list[j].created_at
        /\ (resp.limit = DefaultLimit /\ resp.offset = DefaultOffset) =>
              Len(resp.list) = Min2(10, Cardinality(posts))

\* C8's case: with three posts, limit 2 and offset 2 return the oldest post
C8_Witness ==
    /\ resp.op = "get_posts"
    /\ Cardinality(posts) = 3
    /\ resp.limit = 2
    /\ resp.offset = 2
    /\ Len(resp.list) = 1
    /\ \A p \in posts : p.created_at >= resp.list[1].created_at
    /\ \E p \in posts : p.created_at > resp.list[1].created_at

\* C5 as stated: update_post and delete_post with an accepted token answer
\* 404 when no post has the id, otherwise 403 when the actor's User.id is
\* not the post's author_id (the actor's row may be gone), otherwise 200.
C5_ThreeOutcomes ==
    /\ \A c \in issued, id \in PostIds, d \in PostData :
          Accepted(c) =>
              LET expected == IF PostById(id) = NoPost THEN 404
                              ELSE IF Actor(c).id # PostById(id).author_id THEN 403
                              ELSE 200
              IN  /\ update_post(id, d, c, 401).status = expected
                  /\ delete_post(id, c, 401).status = expected
    /\ resp.op \in {"update_post", "delete_post"} => resp.status \in {200, 401, 403, 404}

\* what C6 asks of the tables and of create_post in one state
C6_Inv ==
    /\ \A p \in posts : \E u \in users : u.id = p.author_id
    /\ \A c \in issued, d \in PostData :
          Accepted(c) =>
              LET r == create_post(d, c, 401)
              IN  IF Actor(c) = NoUser
                  THEN /\ r.status = 404
                       /\ r.posts = posts
                  ELSE /\ r.status = 200
                       /\ r.post.author_id = Actor(c).id
                       /\ r.post.title = d.title
                       /\ r.post.content = d.content
                       /\ r.post \notin posts
                       /\ r.posts = posts \cup {r.post}

\* what C6 asks of one step
C6_Step ==
    (IsRequest /\ resp'.op = "create_post" /\ Accepted(resp'.creds)) =>
        IF Actor(resp'.creds) = NoUser
        THEN /\ resp'.status = 404
             /\ posts' = posts
        ELSE /\ resp'.status = 200
             /\ resp'.post.author_id = Actor(resp'.creds).id
             /\ posts' = posts \cup {resp'.post}

\* C6: every post's author_id is the id of a row of the users table;
\* create_post with an accepted token persists a post whose author_id is
\* the id of the row whose username is the token's subject, and answers 404
\* and persists nothing when there is no such row.
C6_AuthorExists == []C6_Inv /\ [][C6_Step]_vars

\* C6's case: create_post with the live token of a removed account was
\* answered 404 while another account's post exists
C6_Witness ==
    /\ resp.op = "create_post"
    /\ resp.status = 404
    /\ resp.creds \in issued
    /\ Actor(resp.creds) = NoUser
    /\ posts # {}

\* C9 as stated: under concurrent signups the users table holds at most one
\* row per username, at most one of the signups in flight for a username
\* succeeds, and every signup ends with 200 or 400.
C9_ConcurrentSignup ==
    /\ \A u, v \in users : u.username = v.username => u = v
    /\ \A w \in WorkerIds : workers[w].pc = "done" => workers[w].status \in {200, 400}
    /\ \A w, x \in WorkerIds :
          ( /\ w # x
            /\ workers[w].pc = "done" /\ workers[x].pc = "done"
            /\ workers[w].username = workers[x].username
            /\ workers[w].status = 200 ) => workers[x].status = 400

====
